---- MODULE Spec2Model ----
(***************************************************************************)
(* Polymetrics dashboard: the view state of the App component snapshots    *)
(* and the fetch wrappers of lib/api, as one state machine.                *)
(*                                                                         *)
(* Snapshots of App modelled (variable snap):                              *)
(*   "AppTsx"        src/frontend/src/App.tsx        (ID search)           *)
(*   "SportsSearch"  src/unnamed/part_000            (sports toggle+search)*)
(*   "GammaClob"     src/unnamed/part_001:1-130      (source/sort selectors)*)
(*   "Sports"        src/unnamed/part_001:132-237    (sports toggle)       *)
(*   "Basic"         src/unnamed/part_002            (plain listing)       *)
(*                                                                         *)
(* JavaScript is single threaded: a UI event is dispatched (pending), its  *)
(* handler and the effects it triggers run to completion; a response       *)
(* settles the promise of an API function (settling) and the awaiting      *)
(* continuation of the App runs before any other event.                    *)
(*                                                                         *)
(* Spec is the App with its requests. RenderSpec takes the components on   *)
(* their own: the MarketCard variants, the aggregate MarketChart, the      *)
(* active-only filters and the list shown for a sort selection, each       *)
(* applied to props drawn from bounded sets.                               *)
(***************************************************************************)
EXTENDS Integers, Sequences, FiniteSets, TLC

\* ------------------------------------------------------------------ bounds
\* Total number of HTTP requests issued in one behaviour.
MaxRequests == 4
\* Longest market list a bulk endpoint returns.
MaxLen == 1

\* ------------------------------------------------------------- JSON values
Null == [t |-> "null"]
Obj == [t |-> "object"]
Invalid == [t |-> "invalid"]
Arr(s) == [t |-> "array", items |-> s]

\* The markets the upstream can return (fields of types/market).
Markets ==
  { [t |-> "market", id |-> "m1", isActive |-> TRUE, is_active |-> TRUE,
     status |-> "active",
     volume |-> "1000", liquidity |-> ""],
    [t |-> "market", id |-> "m2", isActive |-> FALSE, is_active |-> FALSE,
     status |-> "unknown",
     volume |-> "500", liquidity |-> ""],
    [t |-> "market", id |-> "m3", isActive |-> FALSE, is_active |-> FALSE,
     status |-> "unknown",
     volume |-> "0", liquidity |-> ""] }

RECURSIVE ListsUpTo(_)
ListsUpTo(n) ==
  IF n = 0 THEN {<<>>}
  ELSE LET prev == ListsUpTo(n - 1)
       IN prev \cup { Append(s, m) : s \in {p \in prev : Len(p) = n - 1},
                                     m \in Markets }

\* ids are unique within a fetched collection
UniqueIds(s) == \A i, j \in 1..Len(s) : i # j => s[i].id # s[j].id
MarketLists == { s \in ListsUpTo(MaxLen) : UniqueIds(s) }

\* Bodies a bulk endpoint can answer with a 2xx status: an array of markets,
\* null, some other object, or text that is no JSON.
BulkBodies == { Arr(s) : s \in MarketLists } \cup {Null, Obj, Invalid}
\* Bodies of GET /markets/gamma/{id}.
LookupBodies == Markets \cup {Null, Invalid}

IsArray(v) == v.t = "array"
Truthy(v) == v.t # "null"

\* ------------------------------------------------------------ HTTP outcomes
OkStatuses == {200}
ErrorStatuses == {404, 500}
NetworkFailure == [kind |-> "neterr", status |-> 0, body |-> Null]
HttpResponse(st, b) == [kind |-> "response", status |-> st, body |-> b]
ResponseOk(o) == o.status >= 200 /\ o.status <= 299

OutcomesOf(bodies) ==
  {NetworkFailure}
    \cup { HttpResponse(st, Null) : st \in ErrorStatuses }
    \cup { HttpResponse(st, b) : st \in OkStatuses, b \in bodies }

\* Messages of the errors the platform throws.
FetchTypeErrorMessage == "Failed to fetch"
JsonSyntaxErrorMessage == "Unexpected token < in JSON at position 0"

Fulfilled(v) == [ok |-> TRUE, value |-> v, message |-> ""]
Rejected(msg) == [ok |-> FALSE, value |-> Null, message |-> msg]

\* const response = await fetch(url); if (!response.ok) throw new Error(msg);
\* const data = await response.json(); return data;
\* as the try block of every wrapper: what it returns or throws.
TryFetchJson(o, statusMsg) ==
  IF o.kind = "neterr" THEN Rejected(FetchTypeErrorMessage)
  ELSE IF ~ResponseOk(o) THEN Rejected(statusMsg)
  ELSE IF o.body = Invalid THEN Rejected(JsonSyntaxErrorMessage)
  ELSE Fulfilled(o.body)

\* variant: the catch block rethrows instead of returning []
CatchReturnEmptyRethrows(r) == r
\* catch (error) { ...; return []; }
CatchReturnEmpty(r) == IF r.ok THEN r ELSE Fulfilled(Arr(<<>>))
\* variant: the catch block swallows the error and returns null
CatchRethrowSwallows(r) == IF r.ok THEN r ELSE Fulfilled(Null)
\* catch (error) { ...; throw error; }
CatchRethrow(r) == r
\* return data || [];
OrEmpty(r) == IF r.ok /\ ~Truthy(r.value) THEN Fulfilled(Arr(<<>>)) ELSE r

\* ----------------------------------------------------------- lib/api (part_004)
getMarkets(o) ==
  CatchReturnEmpty(TryFetchJson(o, "Failed to fetch markets: " \o ToString(o.status)))

NotFoundMessage == "Market not found"
\* variant: no special case for 404
LookupStatusMessageGeneric(st) == "Failed to fetch market: " \o ToString(st)
LookupStatusMessage(st) ==
  IF st = 404 THEN NotFoundMessage
  ELSE "Failed to fetch market: " \o ToString(st)

getMarketById(o) ==
  CatchRethrow(TryFetchJson(o, LookupStatusMessage(o.status)))

getSportsMarkets(o) ==
  CatchReturnEmpty(TryFetchJson(o, "Failed to fetch sports markets: " \o ToString(o.status)))

\* ----------------------------------------------------------- lib/api (api.ts)
\* api.ts:5-19 and part_003
getMarketsPlain(o) ==
  CatchReturnEmpty(TryFetchJson(o, "Failed to fetch markets: " \o ToString(o.status)))

\* api.ts:47-63 and 65-81 (Basic-Auth variant)
getMarketsAuth(o) ==
  CatchReturnEmpty(OrEmpty(TryFetchJson(o, "Failed to fetch markets: " \o ToString(o.status))))

getSportsMarketsAuth(o) ==
  CatchReturnEmpty(OrEmpty(TryFetchJson(o, "Failed to fetch sports markets: " \o ToString(o.status))))

\* api.ts:87-114
getMarketsParams(o) ==
  CatchReturnEmpty(TryFetchJson(o, "Failed to fetch markets: " \o ToString(o.status)))

\* api.ts:116-130
fetchGammaMarkets(o) ==
  CatchReturnEmpty(TryFetchJson(o, "Failed to fetch gamma markets: " \o ToString(o.status)))

BulkFns == {"getMarkets", "getSportsMarkets", "getMarketsPlain", "getMarketsAuth",
            "getSportsMarketsAuth", "getMarketsParams", "fetchGammaMarkets"}
LookupFns == {"getMarketById"}

\* The API function fn run on the outcome o of its one request.
ApiCall(fn, o) ==
  CASE fn = "getMarkets" -> getMarkets(o)
    [] fn = "getMarketById" -> getMarketById(o)
    [] fn = "getSportsMarkets" -> getSportsMarkets(o)
    [] fn = "getMarketsPlain" -> getMarketsPlain(o)
    [] fn = "getMarketsAuth" -> getMarketsAuth(o)
    [] fn = "getSportsMarketsAuth" -> getSportsMarketsAuth(o)
    [] fn = "getMarketsParams" -> getMarketsParams(o)
    [] fn = "fetchGammaMarkets" -> fetchGammaMarkets(o)

Outcomes(fn) == IF fn \in LookupFns THEN OutcomesOf(LookupBodies) ELSE OutcomesOf(BulkBodies)

\* ------------------------------------------------------------ JS helpers
\* Number values: NaN or an integer.
NaN == [nan |-> TRUE, n |-> 0]
Num(k) == [nan |-> FALSE, n |-> k]
\* parseFloat on the strings of the modelled markets.
parseFloat(s) ==
  CASE s = "1000" -> Num(1000)
    [] s = "500" -> Num(500)
    [] s = "0" -> Num(0)
    [] OTHER -> NaN
\* a > 0 (false for NaN)
Positive(a) == ~a.nan /\ a.n > 0
\* s || "0"
OrZero(s) == IF s = "" THEN "0" ELSE s

\* Strings of the search box: sequences of one-character strings.
IsSpace(c) == c = " "
RECURSIVE TrimStart(_)
TrimStart(s) == IF s # <<>> /\ IsSpace(Head(s)) THEN TrimStart(Tail(s)) ELSE s
RECURSIVE TrimEnd(_)
TrimEnd(s) ==
  IF s # <<>> /\ IsSpace(s[Len(s)]) THEN TrimEnd(SubSeq(s, 1, Len(s) - 1)) ELSE s
\* String.prototype.trim
Trim(s) == TrimEnd(TrimStart(s))
\* What the user can have typed in the search box: nothing, blanks only, an
\* id with blanks around it.
SearchInputs == { <<>>, <<" ">>, <<" ", "a", " ">> }

\* ----------------------------------------------------------------- state
Snapshots == {"AppTsx", "SportsSearch", "GammaClob", "Sports", "Basic"}
SearchSnapshots == {"AppTsx", "SportsSearch"}
ToggleSnapshots == {"SportsSearch", "Sports"}

VARIABLES
  snap,            \* which snapshot of App runs
  markets,         \* useState<Market[]>([])
  error,           \* useState("")
  loading,         \* useState(true)
  searchId,        \* useState('')
  searchError,     \* useState('')
  showSportsOnly,  \* useState(false)
  showCurrentOnly, \* useState(true)
  marketSource,    \* useState('gamma')
  category,        \* useState<MarketCategory>()
  sortBy,          \* useState<SortBy>()
  sortDirection,   \* useState<SortDirection>('desc')
  mounted,         \* the component tree is mounted (no render has thrown)
  inflight,        \* HTTP requests sent and not yet answered
  nextSeq,         \* number of HTTP requests issued so far
  settling,        \* the API promise that just settled, its continuation due
  pending,         \* the UI event dispatched, its handler due
  shown,           \* seq of the request whose response markets was written from
  props,           \* what a component or list operation is given
  op,              \* the component or list operation applied to props
  out              \* what it rendered or returned

view == <<markets, error, loading, searchId, searchError>>
selectors == <<showSportsOnly, showCurrentOnly, marketSource, category, sortBy, sortDirection>>
net == <<inflight, nextSeq>>
vars == <<snap, markets, error, loading, searchId, searchError, showSportsOnly,
          showCurrentOnly, marketSource, category, sortBy, sortDirection,
          mounted, inflight, nextSeq, settling, pending, shown, props, op, out>>
\* the state of the App, and that of the components taken on their own
app == <<snap, view, selectors, mounted, net, settling, pending, shown>>
pure == <<props, op, out>>
NoProps == [kind |-> "none"]

Undefined == "undefined"
\* the values offered by the selects that the model lets the user pick
Categories == {"sports"}
SortKeys == {"volume"}
SortDirections == {"asc", "desc"}

Event(e, v) == [ev |-> e, value |-> v]
NoEvent == Event("none", <<>>)
NoSettle == [active |-> FALSE]
Settle(r, o) == [active |-> TRUE, req |-> r, outcome |-> o, result |-> ApiCall(r.fn, o)]

Url(p, i, q) == [path |-> p, id |-> i, query |-> q]
Call(f, b, u) == [fn |-> f, by |-> b, url |-> u]
Req(n, c) == [seq |-> n, fn |-> c.fn, by |-> c.by, url |-> c.url]

\* variant: issuing a request aborts the requests still in flight
IssueAbortingPrevious(calls) ==
  /\ inflight' = { Req(nextSeq + i - 1, calls[i]) : i \in 1..Len(calls) }
  /\ nextSeq' = nextSeq + Len(calls)
\* variant: a call whose URL is already being fetched joins that request
IssueDeduplicating(calls) ==
  LET fresh == { i \in 1..Len(calls) :
                   /\ \A r \in inflight : r.url # calls[i].url
                   /\ \A j \in 1..(i - 1) : calls[j].url # calls[i].url }
  IN /\ inflight' = inflight \cup { Req(nextSeq + i - 1, calls[i]) : i \in fresh }
     /\ nextSeq' = nextSeq + Len(calls)
\* fetch(url): one request per call, appended in call order.
Issue(calls) ==
  /\ inflight' = inflight \cup { Req(nextSeq + i - 1, calls[i]) : i \in 1..Len(calls) }
  /\ nextSeq' = nextSeq + Len(calls)

\* A render throws on markets.map / markets.filter of a non-array and on a
\* MarketCard of null; an uncaught render error unmounts the tree.
RenderThrows(m) == ~IsArray(m) \/ \E i \in 1..Len(m.items) : m.items[i] = Null

BoolText(b) == IF b THEN "true" ELSE "false"

\* ------------------------------------------------ the calls of each snapshot
\* variant: sort_direction is appended outside the `if (sortBy)` block
MarketsParamsAlwaysDirection(cat, sb, sd) ==
  (IF cat # Undefined THEN << <<"category", cat>> >> ELSE <<>>)
    \o (IF sb # Undefined THEN << <<"sort_by", sb>> >> ELSE <<>>)
    \o << <<"sort_direction", IF sd = Undefined THEN "desc" ELSE sd>> >>
\* URLSearchParams of getMarkets(category, sortBy, sortDirection = 'desc')
MarketsParams(cat, sb, sd) ==
  (IF cat # Undefined THEN << <<"category", cat>> >> ELSE <<>>)
    \o (IF sb # Undefined
        THEN << <<"sort_by", sb>>, <<"sort_direction", IF sd = Undefined THEN "desc" ELSE sd>> >>
        ELSE <<>>)
\* params.toString()
ParamsText(q) ==
  LET F[i \in 0..Len(q)] ==
        IF i = 0 THEN ""
        ELSE F[i - 1] \o (IF i > 1 THEN "&" ELSE "") \o q[i][1] \o "=" \o q[i][2]
  IN F[Len(q)]
\* `${API_URL}/api/markets${params.toString() ? `?${params.toString()}` : ''}`
MarketsUrl(cat, sb, sd) ==
  LET text == ParamsText(MarketsParams(cat, sb, sd))
  IN "/api/markets" \o (IF text # "" THEN "?" \o text ELSE "")

\* the request fetchMarkets() issues, by snapshot and current selectors
FetchMarketsCall(src, cur, cat, sb, sd) ==
  CASE snap \in SearchSnapshots ->
         Call("getMarkets", "fetchMarkets", Url("/markets/gamma", <<>>, <<>>))
    [] snap = "Sports" ->
         Call("getMarketsAuth", "fetchMarkets",
              Url("/gamma/markets", <<>>, << <<"current_only", "true">> >>))
    [] snap = "Basic" ->
         Call("getMarketsPlain", "fetchMarkets", Url("/api/markets", <<>>, <<>>))
    [] snap = "GammaClob" ->
         IF src = "gamma"
         THEN Call("fetchGammaMarkets", "fetchMarkets",
                   Url("/gamma/markets", <<>>, << <<"current_only", BoolText(cur)>> >>))
         ELSE Call("getMarketsParams", "fetchMarkets",
                   Url("/api/markets", <<>>, MarketsParams(cat, sb, sd)))

fetchMarkets == FetchMarketsCall(marketSource, showCurrentOnly, category, sortBy, sortDirection)

fetchSportsMarkets ==
  IF snap = "Sports"
  THEN Call("getSportsMarketsAuth", "fetchSportsMarkets", Url("/gamma/markets/sports", <<>>, <<>>))
  ELSE Call("getSportsMarkets", "fetchSportsMarkets", Url("/markets/gamma/sports", <<>>, <<>>))

searchCall(id) == Call("getMarketById", "handleSearch", Url("/markets/gamma/", id, <<>>))

\* useEffect(() => { if (!searchId) fetchMarkets(); }, [searchId]) after a
\* render in which searchId went from old to new.
SearchIdEffect(old, new) ==
  IF old # new /\ new = <<>> THEN <<fetchMarkets>> ELSE <<>>

\* variant: if (!searchId) return;
SearchIsBlankUntrimmed(id) == id = <<>>
\* if (!searchId.trim()) return;
SearchIsBlank(id) == Trim(id) = <<>>

Init ==
  /\ snap \in Snapshots
  /\ markets = Arr(<<>>)
  /\ error = ""
  /\ loading = TRUE
  /\ searchId = <<>>
  /\ searchError = ""
  /\ showSportsOnly = FALSE
  /\ showCurrentOnly = TRUE
  /\ marketSource = "gamma"
  /\ category = Undefined
  /\ sortBy = Undefined
  /\ sortDirection = "desc"
  /\ mounted = TRUE
  /\ inflight = {}
  /\ nextSeq = 0
  /\ settling = NoSettle
  /\ pending = Event("mount", <<>>)
  /\ shown = -1
  /\ props = NoProps
  /\ op = "none"
  /\ out = <<>>

\* clearSearch: fetchMarkets(), then the effect on [searchId] of the next
\* render.
ClearSearchCalls(old) == <<fetchMarkets>> \o SearchIdEffect(old, <<>>)

\* part_000: the effect on [showSportsOnly] resets a non-empty search, and
\* the effect on [searchId] then fetches; the Sports snapshot has neither.
ToggleResetsSearch == snap = "SportsSearch" /\ searchId # <<>>
\* variant: the branch tests the flag the other way round
ToggleCallsInverted ==
  << IF showSportsOnly THEN fetchSportsMarkets ELSE fetchMarkets >>
    \o (IF ToggleResetsSearch THEN SearchIdEffect(searchId, <<>>) ELSE <<>>)
ToggleCalls ==
  << IF ~showSportsOnly THEN fetchSportsMarkets ELSE fetchMarkets >>
    \o (IF ToggleResetsSearch THEN SearchIdEffect(searchId, <<>>) ELSE <<>>)
\* ------------------------------------------------------------ UI events
\* The controls a render shows: none while loading (the early return).
AvailableEvents ==
  (IF snap \in SearchSnapshots
   THEN { Event("change", v) : v \in SearchInputs \ {searchId} }
          \cup { Event("search", <<>>) }
          \cup (IF searchId # <<>> THEN { Event("clear", <<>>) } ELSE {})
   ELSE {})
  \cup (IF snap \in ToggleSnapshots THEN { Event("toggleView", <<>>) } ELSE {})
  \cup (IF snap = "GammaClob"
        THEN { Event("toggleSource", <<>>), Event("toggleCurrentOnly", <<>>) }
               \cup { Event("category", <<c>>) : c \in Categories \ {category} }
               \cup { Event("sortBy", <<k>>) : k \in SortKeys \ {sortBy} }
               \cup { Event("sortDirection", <<d>>) : d \in SortDirections \ {sortDirection} }
        ELSE {})

\* How many requests the handler of event e and its effects issue now.
RequestsOf(e) ==
  CASE e.ev = "change" -> Len(SearchIdEffect(searchId, e.value))
    [] e.ev = "search" -> IF SearchIsBlank(searchId) THEN 0 ELSE 1
    [] e.ev = "clear" -> Len(ClearSearchCalls(searchId))
    [] e.ev = "toggleView" -> Len(ToggleCalls)
    [] OTHER -> 1
Idle == pending = NoEvent /\ ~settling.active

\* The user acts on a rendered control.
Dispatch ==
  /\ Idle
  /\ mounted
  /\ ~loading
  /\ \E e \in AvailableEvents :
       /\ nextSeq + RequestsOf(e) <= MaxRequests
       /\ pending' = e
  /\ UNCHANGED <<snap, view, selectors, mounted, net, settling, shown, pure>>

Handled ==
  /\ pending' = NoEvent
  /\ UNCHANGED <<snap, mounted, settling, shown, pure>>

\* The effects of the first render.
Mount ==
  /\ pending.ev = "mount"
  /\ Issue(IF searchId = <<>> \/ snap \notin SearchSnapshots THEN <<fetchMarkets>> ELSE <<>>)
  /\ UNCHANGED <<view, selectors>>
  /\ Handled

\* onChange={(e) => setSearchId(e.target.value)}
ChangeSearch ==
  /\ pending.ev = "change"
  /\ searchId' = pending.value
  /\ Issue(SearchIdEffect(searchId, pending.value))
  /\ UNCHANGED <<markets, error, loading, searchError, selectors>>
  /\ Handled

handleSearch ==
  /\ pending.ev = "search"
  /\ IF SearchIsBlank(searchId)
     THEN UNCHANGED <<loading, searchError, net>>
     ELSE /\ loading' = TRUE
          /\ searchError' = ""
          /\ Issue(<<searchCall(Trim(searchId))>>)
  /\ UNCHANGED <<markets, error, searchId, selectors>>
  /\ Handled

\* setSearchId(''); setSearchError(''); fetchMarkets();
clearSearch ==
  /\ pending.ev = "clear"
  /\ searchId' = <<>>
  /\ searchError' = ""
  /\ Issue(ClearSearchCalls(searchId))
  /\ UNCHANGED <<markets, error, loading, selectors>>
  /\ Handled

toggleMarketView ==
  /\ pending.ev = "toggleView"
  /\ loading' = TRUE
  /\ showSportsOnly' = ~showSportsOnly
  /\ Issue(ToggleCalls)
  /\ IF ToggleResetsSearch
     THEN searchId' = <<>> /\ searchError' = ""
     ELSE UNCHANGED <<searchId, searchError>>
  /\ UNCHANGED <<markets, error, showCurrentOnly, marketSource, category, sortBy, sortDirection>>
  /\ Handled

\* The selectors of the gamma/clob snapshot: each sets its state, and the
\* effect on [marketSource, showCurrentOnly, category, sortBy, sortDirection]
\* calls fetchMarkets() with the new values.
OtherSource(src) == IF src = "gamma" THEN "clob" ELSE "gamma"

ToggleSource ==
  /\ pending.ev = "toggleSource"
  /\ marketSource' = OtherSource(marketSource)
  /\ Issue(<<FetchMarketsCall(marketSource', showCurrentOnly, category, sortBy, sortDirection)>>)
  /\ UNCHANGED <<view, showSportsOnly, showCurrentOnly, category, sortBy, sortDirection>>
  /\ Handled

\* variant: the effect's dependency list leaves showCurrentOnly out
ToggleCurrentOnlyFiltersOnly ==
  /\ pending.ev = "toggleCurrentOnly"
  /\ showCurrentOnly' = ~showCurrentOnly
  /\ UNCHANGED <<view, net, showSportsOnly, marketSource, category, sortBy, sortDirection>>
  /\ Handled
ToggleCurrentOnly ==
  /\ pending.ev = "toggleCurrentOnly"
  /\ showCurrentOnly' = ~showCurrentOnly
  /\ Issue(<<FetchMarketsCall(marketSource, showCurrentOnly', category, sortBy, sortDirection)>>)
  /\ UNCHANGED <<view, showSportsOnly, marketSource, category, sortBy, sortDirection>>
  /\ Handled

SelectCategory ==
  /\ pending.ev = "category"
  /\ category' = pending.value[1]
  /\ Issue(<<FetchMarketsCall(marketSource, showCurrentOnly, category', sortBy, sortDirection)>>)
  /\ UNCHANGED <<view, showSportsOnly, showCurrentOnly, marketSource, sortBy, sortDirection>>
  /\ Handled

SelectSortBy ==
  /\ pending.ev = "sortBy"
  /\ sortBy' = pending.value[1]
  /\ Issue(<<FetchMarketsCall(marketSource, showCurrentOnly, category, sortBy', sortDirection)>>)
  /\ UNCHANGED <<view, showSportsOnly, showCurrentOnly, marketSource, category, sortDirection>>
  /\ Handled

SelectSortDirection ==
  /\ pending.ev = "sortDirection"
  /\ sortDirection' = pending.value[1]
  /\ Issue(<<FetchMarketsCall(marketSource, showCurrentOnly, category, sortBy, sortDirection')>>)
  /\ UNCHANGED <<view, showSportsOnly, showCurrentOnly, marketSource, category, sortBy>>
  /\ Handled

\* variant: the filter removes in place while it walks the list, so the
\* market behind a removed one is not tested
RECURSIVE SpliceFrom(_, _, _)
SpliceFrom(items, i, cur) ==
  IF i > Len(items) THEN items
  ELSE IF ~cur \/ items[i].is_active THEN SpliceFrom(items, i + 1, cur)
  ELSE SpliceFrom(SubSeq(items, 1, i - 1) \o SubSeq(items, i + 1, Len(items)), i + 1, cur)
filteredMarketsBySplice(items, cur) == SpliceFrom(items, 1, cur)
\* part_001:106-112: markets.filter(market => !showCurrentOnly || market.is_active)
filteredMarkets(items, cur) ==
  LET F[i \in 0..Len(items)] ==
        IF i = 0 THEN <<>>
        ELSE IF ~cur \/ items[i].is_active THEN Append(F[i - 1], items[i]) ELSE F[i - 1]
  IN F[Len(items)]
\* ------------------------------------------------------ the continuations
\* What the code after `await` writes: the new markets, error and
\* searchError, and whether setMarkets was called.
Patch(m, e, se, w) == [markets |-> m, error |-> e, searchError |-> se, wrote |-> w]
KeepMarkets(e) == Patch(markets, e, searchError, FALSE)
\* variant: the fetched markets are appended to those already held
SetMarketsAppending(m) ==
  Patch(IF IsArray(m) /\ IsArray(markets) THEN Arr(markets.items \o m.items) ELSE m,
        "", searchError, TRUE)
SetMarkets(m) == Patch(m, "", searchError, TRUE)

\* App.tsx:24-27
IsActiveMarket(m) ==
  \/ m.isActive
  \/ /\ m.status = "unknown"
     /\ \/ Positive(parseFloat(OrZero(m.volume)))
        \/ Positive(parseFloat(OrZero(m.liquidity)))
\* marketsData.filter(market => ...): the matching elements, in order
ActiveMarkets(items) ==
  LET F[i \in 0..Len(items)] ==
        IF i = 0 THEN <<>>
        ELSE IF IsActiveMarket(items[i]) THEN Append(F[i - 1], items[i]) ELSE F[i - 1]
  IN F[Len(items)]

\* variant: the empty branch also clears the list
AppFetchMarketsDoneClearing(res) ==
  IF ~res.ok THEN KeepMarkets("Failed to fetch markets. Please try again later.")
  ELSE IF IsArray(res.value)
  THEN IF Len(ActiveMarkets(res.value.items)) > 0
       THEN SetMarkets(Arr(ActiveMarkets(res.value.items)))
       ELSE Patch(Arr(<<>>), "No active markets found at this time.", searchError, TRUE)
  ELSE KeepMarkets("Unable to load markets. Please try again later.")
\* App.tsx fetchMarkets, after the await
AppFetchMarketsDone(res) ==
  IF ~res.ok THEN KeepMarkets("Failed to fetch markets. Please try again later.")
  ELSE IF IsArray(res.value)
  THEN IF Len(ActiveMarkets(res.value.items)) > 0
       THEN SetMarkets(Arr(ActiveMarkets(res.value.items)))
       ELSE KeepMarkets("No active markets found at this time.")
  ELSE KeepMarkets("Unable to load markets. Please try again later.")

\* part_000 and part_001:147-167 fetchMarkets, after the await
SportsFetchMarketsDone(res) ==
  IF ~res.ok THEN KeepMarkets("Failed to fetch markets. Please try again later.")
  ELSE IF IsArray(res.value) /\ Len(res.value.items) > 0 THEN SetMarkets(res.value)
  ELSE IF IsArray(res.value) /\ Len(res.value.items) = 0
  THEN KeepMarkets("No active markets found. This could be due to rate limiting. Please try again in a few minutes.")
  ELSE KeepMarkets("Unable to load markets. Please try again later.")

\* part_000 and part_001:169-189 fetchSportsMarkets, after the await
FetchSportsMarketsDone(res) ==
  IF ~res.ok THEN KeepMarkets("Failed to fetch sports markets. Please try again later.")
  ELSE IF IsArray(res.value) /\ Len(res.value.items) > 0 THEN SetMarkets(res.value)
  ELSE IF IsArray(res.value) /\ Len(res.value.items) = 0
  THEN KeepMarkets("No active sports markets found at this time.")
  ELSE KeepMarkets("Unable to load sports markets. Please try again later.")

\* part_001:22-40 and part_002:22-32 fetchMarkets, after the await
PlainFetchMarketsDone(res) ==
  IF ~res.ok THEN KeepMarkets("Failed to fetch markets. Please try again later.")
  ELSE SetMarkets(IF Truthy(res.value) THEN res.value ELSE Arr(<<>>))

\* variant: the catch of handleSearch reports on the page-level banner too
HandleSearchDoneSetsError(res) ==
  IF res.ok THEN SetMarkets(Arr(<<res.value>>))
  ELSE Patch(Arr(<<>>), res.message, res.message, TRUE)
\* handleSearch, after the await
HandleSearchDone(res) ==
  IF res.ok THEN SetMarkets(Arr(<<res.value>>))
  ELSE Patch(Arr(<<>>), error, res.message, TRUE)

Continuation(by, res) ==
  CASE by = "handleSearch" -> HandleSearchDone(res)
    [] by = "fetchSportsMarkets" -> FetchSportsMarketsDone(res)
    [] by = "fetchMarkets" /\ snap = "AppTsx" -> AppFetchMarketsDone(res)
    [] by = "fetchMarkets" /\ snap \in ToggleSnapshots -> SportsFetchMarketsDone(res)
    [] by = "fetchMarkets" /\ snap \in {"GammaClob", "Basic"} -> PlainFetchMarketsDone(res)

\* The network answers one request: the promise of its API function settles.
Respond ==
  /\ Idle
  /\ \E r \in inflight :
       /\ inflight' = inflight \ {r}
       /\ \E o \in Outcomes(r.fn) : settling' = Settle(r, o)
  /\ UNCHANGED <<snap, view, selectors, mounted, nextSeq, pending, shown, pure>>

\* variant: setLoading(false) stands at the end of the try block, not in
\* finally
ContinueLoadingInTry ==
  /\ settling.active
  /\ settling' = NoSettle
  /\ IF mounted
     THEN LET p == Continuation(settling.req.by, settling.result)
          IN /\ markets' = p.markets
             /\ error' = p.error
             /\ searchError' = p.searchError
             /\ loading' = (IF settling.result.ok THEN FALSE ELSE loading)
             /\ shown' = IF p.wrote THEN settling.req.seq ELSE shown
             /\ mounted' = ~RenderThrows(p.markets)
     ELSE UNCHANGED <<markets, error, searchError, loading, shown, mounted>>
  /\ UNCHANGED <<snap, searchId, selectors, net, pending, pure>>
\* The awaiting function resumes: try/catch branch, then finally
\* setLoading(false). No response is checked against a newer request. The
\* state updates are dropped once unmounted.
Continue ==
  /\ settling.active
  /\ settling' = NoSettle
  /\ IF mounted
     THEN LET p == Continuation(settling.req.by, settling.result)
          IN /\ markets' = p.markets
             /\ error' = p.error
             /\ searchError' = p.searchError
             /\ loading' = FALSE
             /\ shown' = IF p.wrote THEN settling.req.seq ELSE shown
             /\ mounted' = ~RenderThrows(p.markets)
     ELSE UNCHANGED <<markets, error, searchError, loading, shown, mounted>>
  /\ UNCHANGED <<snap, searchId, selectors, net, pending, pure>>

Next ==
  \/ Dispatch
  \/ Mount
  \/ ChangeSearch
  \/ handleSearch
  \/ clearSearch
  \/ toggleMarketView
  \/ ToggleSource
  \/ ToggleCurrentOnly
  \/ SelectCategory
  \/ SelectSortBy
  \/ SelectSortDirection
  \/ Respond
  \/ Continue

Spec == Init /\ [][Next]_vars

\* ------------------------------------------------- the search snapshots,
\* with the scheduling of the event loop.
SearchInit == Init /\ snap \in SearchSnapshots

\* Total number of HTTP requests issued in one behaviour of LiveSpec.
MaxLiveRequests == 3

\* The user acts on a rendered control.
LiveDispatch ==
  /\ Idle
  /\ mounted
  /\ ~loading
  /\ \E e \in AvailableEvents :
       /\ nextSeq + RequestsOf(e) <= MaxLiveRequests
       /\ pending' = e
  /\ UNCHANGED <<snap, view, selectors, mounted, net, settling, shown, pure>>

SearchNext ==
  \/ LiveDispatch
  \/ Mount
  \/ ChangeSearch
  \/ handleSearch
  \/ clearSearch
  \/ toggleMarketView
  \/ Respond
  \/ Continue

\* a task of the event loop: a handler, a response, a continuation
EventLoop ==
  \/ Mount \/ ChangeSearch \/ handleSearch \/ clearSearch \/ toggleMarketView
  \/ Respond
  \/ Continue

\* The event loop does not stop while it has a task; nothing is assumed of
\* the user.
LiveSpec == SearchInit /\ [][SearchNext]_vars /\ WF_vars(EventLoop)
\* ========================================================= the components
\* The cards, the aggregate chart and the list operations are pure functions
\* of what they are given: RenderSpec draws props from bounded sets and
\* applies one of them.

\* Longest list of markets given to the cards and the aggregate chart.
MaxCards == 2
\* Longest list given to the filters and the sort.
MaxListLen == 3

\* ----------------------------------------------------- values of a field
Undef == [t |-> "undefined"]
Str(s) == [t |-> "string", s |-> s]
\* volume and open interest as the upstream can send them: missing, null,
\* empty, not a number, zero, a number
RawAmounts == {Undef, Null, Str(""), Str("abc"), Str("0"), Str("1000")}
\* !value
Falsy(v) == v \in {Undef, Null, Str("")}
\* value || d
OrDefault(v, d) == IF Falsy(v) THEN Str(d) ELSE v
\* Number(value), as Intl.NumberFormat.format applies it to its argument
ToNumber(v) ==
  CASE v = Undef -> NaN
    [] v = Null -> Num(0)
    [] v = Str("") -> Num(0)
    [] OTHER -> parseFloat(v.s)
\* a + b on numbers
Plus(a, b) == IF a.nan \/ b.nan THEN NaN ELSE Num(a.n + b.n)

Pad2(k) == IF k < 10 THEN "0" \o ToString(k) ELSE ToString(k)
Pad3(k) == IF k < 100 THEN "0" \o Pad2(k) ELSE ToString(k)
\* en-US digit grouping
RECURSIVE Grouped(_)
Grouped(k) == IF k < 1000 THEN ToString(k) ELSE Grouped(k \div 1000) \o "," \o Pad3(k % 1000)
\* new Intl.NumberFormat('en-US', {style: 'currency', currency: 'USD',
\* minimumFractionDigits: 0, maximumFractionDigits: 0}).format(num)
CurrencyFormat(num) == IF num.nan THEN "$NaN" ELSE "$" \o Grouped(num.n)
\* (n / d).toFixed(2)
Fixed2(n, d) ==
  LET cents == (n * 100 + d \div 2) \div d
  IN ToString(cents \div 100) \o "." \o Pad2(cents % 100)

\* ------------------------------------------------------------ the cards
\* MarketChart.tsx:72-80 and 199-207, part_006: formatCurrency(value)
formatCurrency(value) == CurrencyFormat(parseFloat(value.s))
\* formatCurrency(market.volume || '0')
CurrencyCard(m) ==
  [volume |-> formatCurrency(OrDefault(m.volume, "0")),
   open_interest |-> formatCurrency(OrDefault(m.open_interest, "0"))]

\* MarketChart.tsx:133-143 formatNumber(value)
formatNumber(value) ==
  IF Falsy(value) THEN "N/A"
  ELSE LET num == parseFloat(value.s)
       IN IF num.nan THEN "N/A" ELSE CurrencyFormat(num)
GuardedCard(m) ==
  [volume |-> formatNumber(m.volume), open_interest |-> formatNumber(m.open_interest)]

\* MarketCard.tsx:17-24 formatNumber(num)
formatNumberCard(value) == CurrencyFormat(ToNumber(value))
NumericCard(m) ==
  [volume |-> formatNumberCard(m.volume),
   open_interest |-> formatNumberCard(m.open_interest)]

\* -------------------------------------------------- the aggregate chart
\* part_005:18-26: markets.reduce((sum, market) => { const v =
\* parseFloat(market.field || '0'); return sum + (isNaN(v) ? 0 : v); }, 0)
Guarded(v) == LET num == parseFloat(OrDefault(v, "0").s) IN IF num.nan THEN Num(0) ELSE num
totalVolume(list) ==
  LET F[i \in 0..Len(list)] ==
        IF i = 0 THEN Num(0) ELSE Plus(F[i - 1], Guarded(list[i].volume))
  IN F[Len(list)]
totalOpenInterest(list) ==
  LET F[i \in 0..Len(list)] ==
        IF i = 0 THEN Num(0) ELSE Plus(F[i - 1], Guarded(list[i].open_interest))
  IN F[Len(list)]
\* part_005:34-38 formatNumber(num)
formatNumberChart(num) ==
  IF num.nan THEN "NaN"
  ELSE IF num.n >= 1000000 THEN Fixed2(num.n, 1000000) \o "M"
  ELSE IF num.n >= 1000 THEN Fixed2(num.n, 1000) \o "K"
  ELSE Fixed2(num.n, 1)
\* part_005:48-56
MarketChart(list) ==
  [volume |-> "$" \o formatNumberChart(totalVolume(list)),
   open_interest |-> "$" \o formatNumberChart(totalOpenInterest(list))]

\* ------------------------------------------------------ the status labels
\* variant: the status string is tested before the active flag
getDisplayStatusStatusFirst(status, isActive) ==
  IF status = "resolved" THEN "Resolved"
  ELSE IF isActive THEN "Active"
  ELSE IF status # "" THEN status ELSE "Unknown"
\* MarketChart.tsx:88-92
getDisplayStatus(status, isActive) ==
  IF isActive THEN "Active"
  ELSE IF status = "resolved" THEN "Resolved"
  ELSE IF status # "" THEN status ELSE "Unknown"
\* MarketChart.tsx:122: market.event_status || (market.is_active ? 'Active' : 'Inactive')
FooterStatus(m) ==
  IF m.event_status # "" THEN m.event_status
  ELSE IF m.is_active THEN "Active" ELSE "Inactive"
\* MarketChart.tsx:157-161
StatusBadge(m) ==
  IF m.is_active THEN "Active"
  ELSE IF m.event_status = "resolved" THEN "Resolved" ELSE "Inactive"
\* MarketChart.tsx:213-215, part_006
getDisplayStatusOfFlag(isActive) == IF isActive THEN "Active" ELSE "Inactive"
\* MarketCard.tsx:26-37
getStatusBadge(m) ==
  IF m.is_active /\ m.accepting_orders THEN "Active"
  ELSE IF m.closed THEN "Closed"
  ELSE IF m.archived THEN "Archived" ELSE "Pending"
\* the labels each card shows for one market
StatusLabels(m) ==
  [statusAware |-> getDisplayStatus(m.event_status, m.is_active),
   footer |-> FooterStatus(m),
   badge |-> StatusBadge(m),
   flagOnly |-> getDisplayStatusOfFlag(m.is_active),
   statusBadge |-> getStatusBadge(m)]

\* ------------------------------------------------------------ the backend
\* The value of key k in a query string, d when absent.
QueryValue(q, k, d) ==
  IF \E i \in 1..Len(q) : q[i][1] = k
  THEN q[CHOOSE i \in 1..Len(q) : q[i][1] = k][2]
  ELSE d
\* x comes strictly before y in direction dir of the volume order
Before(x, y, dir) ==
  IF dir = "asc" THEN parseFloat(x.volume).n < parseFloat(y.volume).n
  ELSE parseFloat(x.volume).n > parseFloat(y.volume).n
\* stable sort: each market goes behind those it does not come before
StableSort(list, dir) ==
  LET F[i \in 0..Len(list)] ==
        IF i = 0 THEN <<>>
        ELSE LET done == F[i - 1]
                 p == Cardinality({ j \in 1..Len(done) : ~Before(list[i], done[j], dir) })
             IN SubSeq(done, 1, p) \o <<list[i]>> \o SubSeq(done, p + 1, Len(done))
  IN F[Len(list)]
\* The proxy answers the upstream list, sorted when the request asks for it.
BackendResponse(url, upstream) ==
  IF QueryValue(url.query, "sort_by", Undefined) # Undefined
  THEN StableSort(upstream, QueryValue(url.query, "sort_direction", "desc"))
  ELSE upstream

\* part_001:22-40 and 106-129: the cards shown once the request of the
\* current selectors is answered from the upstream list
Displayed(p) ==
  filteredMarkets(
    BackendResponse(
      FetchMarketsCall(p.marketSource, p.showCurrentOnly, Undefined, p.sortBy, p.sortDirection).url,
      p.list),
    p.showCurrentOnly)

\* ---------------------------------------------------------------- props
RECURSIVE SeqsUpTo(_, _)
SeqsUpTo(S, n) ==
  IF n = 0 THEN {<<>>}
  ELSE LET prev == SeqsUpTo(S, n - 1)
       IN prev \cup { Append(s, m) : s \in {p \in prev : Len(p) = n - 1}, m \in S }

AmountMarkets == { [volume |-> v, open_interest |-> o] : v, o \in RawAmounts }
StatusTexts == {"", "resolved", "closed", "active"}
StatusMarkets ==
  { [is_active |-> a, event_status |-> s, accepting_orders |-> ao,
     closed |-> c, archived |-> ar] :
      a \in BOOLEAN, s \in StatusTexts, ao \in BOOLEAN, c \in BOOLEAN, ar \in BOOLEAN }
\* the markets of the fetched lists, one more with the volume of m1
ListMarkets ==
  Markets \cup { [t |-> "market", id |-> "m4", isActive |-> FALSE, is_active |-> FALSE,
                  status |-> "closed", volume |-> "1000", liquidity |-> ""] }

AmountProps == { [kind |-> "amounts", list |-> s] : s \in SeqsUpTo(AmountMarkets, MaxCards) }
StatusProps == { [kind |-> "status", market |-> m] : m \in StatusMarkets }
ListProps ==
  { [kind |-> "list", list |-> s, showCurrentOnly |-> c, marketSource |-> src,
     sortBy |-> sb, sortDirection |-> sd] :
      s \in { l \in SeqsUpTo(ListMarkets, MaxListLen) : UniqueIds(l) },
      c \in BOOLEAN, src \in {"gamma", "clob"},
      sb \in SortKeys \cup {Undefined}, sd \in SortDirections }

\* the arguments of getMarkets(category, sortBy, sortDirection)
AllCategories == {"sports", "crypto", "politics", "entertainment", "other"}
AllSortKeys == {"volume", "created_at"}
ParamsProps ==
  { [kind |-> "params", category |-> c, sortBy |-> sb, sortDirection |-> sd] :
      c \in AllCategories \cup {Undefined}, sb \in AllSortKeys \cup {Undefined},
      sd \in SortDirections \cup {Undefined} }

RenderInit ==
  /\ snap = "GammaClob"
  /\ markets = Arr(<<>>)
  /\ error = ""
  /\ loading = FALSE
  /\ searchId = <<>>
  /\ searchError = ""
  /\ showSportsOnly = FALSE
  /\ showCurrentOnly = TRUE
  /\ marketSource = "gamma"
  /\ category = Undefined
  /\ sortBy = Undefined
  /\ sortDirection = "desc"
  /\ mounted = TRUE
  /\ inflight = {}
  /\ nextSeq = 0
  /\ settling = NoSettle
  /\ pending = NoEvent
  /\ shown = -1
  /\ props \in AmountProps \cup StatusProps \cup ListProps \cup ParamsProps
  /\ op = "none"
  /\ out = <<>>

Applied(name, result) ==
  /\ op = "none"
  /\ op' = name
  /\ out' = result
  /\ UNCHANGED <<app, props>>

\* one card per market, by the kind of card
RenderCurrencyCards ==
  /\ props.kind = "amounts"
  /\ Applied("CurrencyCard", [i \in 1..Len(props.list) |-> CurrencyCard(props.list[i])])
RenderGuardedCards ==
  /\ props.kind = "amounts"
  /\ Applied("GuardedCard", [i \in 1..Len(props.list) |-> GuardedCard(props.list[i])])
RenderNumericCards ==
  /\ props.kind = "amounts"
  /\ Applied("NumericCard", [i \in 1..Len(props.list) |-> NumericCard(props.list[i])])
RenderMarketChart ==
  /\ props.kind = "amounts"
  /\ Applied("MarketChart", <<MarketChart(props.list)>>)
RenderStatusLabels ==
  /\ props.kind = "status"
  /\ Applied("StatusLabels", <<StatusLabels(props.market)>>)
\* the active-only filters
FilterCurrent ==
  /\ props.kind = "list"
  /\ Applied("filteredMarkets", filteredMarkets(props.list, props.showCurrentOnly))
FilterActive ==
  /\ props.kind = "list"
  /\ Applied("ActiveMarkets", ActiveMarkets(props.list))
\* the list shown for the selected source, sort key and direction
Display ==
  /\ props.kind = "list"
  /\ Applied("Displayed", Displayed(props))

\* api.ts:87-101: the request getMarkets builds
BuildMarketsUrl ==
  /\ props.kind = "params"
  /\ Applied("getMarkets",
             <<[query |-> MarketsParams(props.category, props.sortBy, props.sortDirection),
                url |-> MarketsUrl(props.category, props.sortBy, props.sortDirection)]>>)

RenderNext ==
  \/ BuildMarketsUrl
  \/ RenderCurrencyCards
  \/ RenderGuardedCards
  \/ RenderNumericCards
  \/ RenderMarketChart
  \/ RenderStatusLabels
  \/ FilterCurrent
  \/ FilterActive
  \/ Display

RenderSpec == RenderInit /\ [][RenderNext]_vars
\* ================================================================ claims
\* A step in which the dispatched event's handler (and its effects) ran.
HandlerRan == pending # NoEvent /\ pending' = NoEvent
\* A step in which the continuation of the settled promise ran, mounted.
ContinuationRan == settling.active /\ ~settling'.active /\ mounted
\* The request failed: no response, a non-2xx status, or a body that is no JSON.
TransportFailed(o) == o.kind = "neterr"
StatusFailed(o) == o.kind = "response" /\ (o.status < 200 \/ o.status > 299)
ParseFailed(o) == o.kind = "response" /\ ~StatusFailed(o) /\ o.body = Invalid
Failed(o) == TransportFailed(o) \/ StatusFailed(o) \/ ParseFailed(o)

\* C1: in the search-capable snapshots, handleSearch on an empty or
\* whitespace-only searchId issues no request and leaves markets, loading,
\* error and searchError unchanged.
C1_BlankSearchIsNoOp ==
  [][ (HandlerRan /\ pending.ev = "search" /\ \A i \in 1..Len(searchId) : searchId[i] = " ")
        => UNCHANGED <<markets, loading, error, searchError, inflight, nextSeq>> ]_vars

\* C1 witness: Search is triggered on a whitespace-only searchId while a
\* market list is displayed.
C1_Witness ==
  /\ pending.ev = "search"
  /\ searchId = <<" ">>
  /\ markets # Arr(<<>>)
  /\ snap \in SearchSnapshots

\* C2: getMarketById turns a 404 into the message 'Market not found', every
\* other non-2xx status into 'Failed to fetch market: <status>', and a
\* transport or parse failure into another message again; when the
\* continuation of handleSearch has run, searchError is 'Market not found'.
C2_NotFoundIsDistinct ==
  [][ (settling.active /\ settling.req.fn = "getMarketById")
        => LET o == settling.outcome
               res == settling.result
               is404 == o.kind = "response" /\ o.status = 404
           IN /\ is404 => (~res.ok /\ res.message = "Market not found")
              /\ (StatusFailed(o) /\ ~is404)
                   => (~res.ok /\ res.message = "Failed to fetch market: " \o ToString(o.status))
              /\ (~res.ok /\ ~is404) => res.message # "Market not found"
              /\ (is404 /\ ContinuationRan) => searchError' = "Market not found" ]_vars

\* C2 witness: a search answered 404 has completed.
C2_Witness ==
  /\ searchError = "Market not found"
  /\ ~loading
  /\ Idle

\* C3: a bulk-listing API function never rejects; on a non-2xx status, a
\* transport failure or an unparseable body it resolves to the empty list.
C3_BulkNeverThrows ==
  (settling.active /\ settling.req.fn \in BulkFns)
    => /\ settling.result.ok
       /\ Failed(settling.outcome) => settling.result.value = Arr(<<>>)

\* C3 witness: a bulk-listing call whose request got a non-2xx status has
\* resolved to the empty list.
C3_Witness ==
  /\ settling.active
  /\ settling.req.fn \in BulkFns
  /\ StatusFailed(settling.outcome)
  /\ settling.result = Fulfilled(Arr(<<>>))

\* C4 (as claimed): in every snapshot, once a failed bulk-listing request
\* has completed, the page-level error is a non-empty banner message.
C4_FailedBulkShowsBanner ==
  [][ (ContinuationRan /\ settling.req.fn \in BulkFns /\ Failed(settling.outcome))
        => error' # "" ]_vars

\* The message getMarketById throws for a failed outcome.
LookupFailureMessage(o) ==
  IF TransportFailed(o) THEN FetchTypeErrorMessage
  ELSE IF ParseFailed(o) THEN JsonSyntaxErrorMessage
  ELSE IF o.status = 404 THEN "Market not found"
  ELSE "Failed to fetch market: " \o ToString(o.status)

\* C5: a failed single-market lookup reaches handleSearch as a thrown error:
\* when its continuation has run, searchError is the error's message,
\* markets is the empty list and loading is false.
C5_FailedLookupThrows ==
  [][ (settling.active /\ settling.req.by = "handleSearch" /\ Failed(settling.outcome))
        => /\ ~settling.result.ok
           /\ ContinuationRan
                => /\ searchError' = LookupFailureMessage(settling.outcome)
                   /\ markets' = Arr(<<>>)
                   /\ loading' = FALSE ]_vars

\* C5 witness: a search that failed with a 500 has completed.
C5_Witness ==
  /\ searchError = "Failed to fetch market: 500"
  /\ markets = Arr(<<>>)
  /\ ~loading
  /\ Idle

\* Request number n has been issued and its continuation has run.
Completed(n) ==
  /\ n \in 0..(nextSeq - 1)
  /\ \A r \in inflight : r.seq # n
  /\ ~(settling.active /\ settling.req.seq = n)
\* The settled promise belongs to a request older than one already completed.
StaleSettling ==
  /\ settling.active
  /\ \E n \in (settling.req.seq + 1)..(nextSeq - 1) : Completed(n)
\* A successful bulk response carrying a non-empty list of active markets.
NonEmptyActiveList(res) ==
  /\ res.ok
  /\ IsArray(res.value)
  /\ res.value.items # <<>>
  /\ \A i \in 1..Len(res.value.items) : res.value.items[i].isActive

\* C6: requests are neither cancelled nor sequence-checked: a request in
\* flight stays in flight until it is answered, and the response of a request
\* issued before an already completed one still replaces markets.
C6_StaleResponseOverwrites ==
  [][ /\ \A r \in inflight : r \in inflight' \/ (settling'.active /\ settling'.req = r)
      /\ (StaleSettling /\ ContinuationRan /\ settling.req.fn \in BulkFns
            /\ NonEmptyActiveList(settling.result))
           => (markets' = settling.result.value /\ shown' = settling.req.seq) ]_vars

\* C6 witness: markets holds the data of B, the most recently issued request,
\* and the response of the older request A, with other data, is about to be
\* applied.
C6_Witness ==
  /\ StaleSettling
  /\ mounted
  /\ settling.req.fn \in BulkFns
  /\ NonEmptyActiveList(settling.result)
  /\ shown = nextSeq - 1
  /\ Completed(nextSeq - 1)
  /\ markets # settling.result.value
  /\ markets # Arr(<<>>)

\* C7 (as claimed): each user action (mount, Search, Clear, toggle, editing
\* the search box) issues at most one HTTP request.
C7_OneRequestPerAction ==
  [][ HandlerRan => nextSeq' <= nextSeq + 1 ]_vars

\* C8 (as claimed): a request is in flight only while loading is true.
C8_InFlightOnlyWhileLoading ==
  (mounted /\ (inflight # {} \/ settling.active)) => loading

\* C9 (as claimed): when handleSearch or toggleMarketView sets loading to
\* true, error and searchError are both empty.
C9_LoadingClearsErrors ==
  [][ (HandlerRan /\ pending.ev \in {"search", "toggleView"} /\ loading')
        => (error' = "" /\ searchError' = "") ]_vars

NoActiveMarketsMessages ==
  { "No active markets found at this time.",
    "No active markets found. This could be due to rate limiting. Please try again in a few minutes.",
    "No active sports markets found at this time." }

\* C10 (as claimed): when a bulk fetch completes with the empty array,
\* markets is empty and error is a 'no active markets' message.
C10_EmptyFetchShowsNoCards ==
  [][ (ContinuationRan /\ settling.req.fn \in BulkFns
         /\ settling.outcome = HttpResponse(200, Arr(<<>>)))
        => (markets' = Arr(<<>>) /\ error' \in NoActiveMarketsMessages) ]_vars


\* C11: a response body that is not an array is never stored: markets is a
\* list in every reachable state of every App snapshot.
C11_MarketsIsAlwaysAList == IsArray(markets)

\* the gamma/clob snapshot toggles showCurrentOnly
CurrentOnlyToggled == HandlerRan /\ pending.ev = "toggleCurrentOnly"

\* C12 as stated: in the gamma/clob snapshot, toggling showCurrentOnly
\* issues no new HTTP request.
C12_ToggleCurrentOnlyIssuesNoRequest ==
  [][ CurrentOnlyToggled => UNCHANGED <<inflight, nextSeq>> ]_vars

\* C12 amended: toggling showCurrentOnly leaves markets in memory untouched,
\* so the displayed list is the is_active filter of the list already held,
\* and it also issues exactly one new request by fetchMarkets, which in
\* gamma mode carries the new current_only value.
C12_ToggleCurrentOnlyRefetches ==
  [][ CurrentOnlyToggled
        => /\ markets' = markets
           /\ showCurrentOnly' = ~showCurrentOnly
           /\ IsArray(markets) =>
                filteredMarkets(markets'.items, showCurrentOnly')
                  = IF showCurrentOnly' THEN filteredMarkets(markets.items, TRUE)
                    ELSE markets.items
           /\ nextSeq' = nextSeq + 1
           /\ \E r \in inflight' \ inflight :
                /\ inflight' = inflight \cup {r}
                /\ r.seq = nextSeq
                /\ r.by = "fetchMarkets"
                /\ marketSource = "gamma"
                     => r.url.query = << <<"current_only", BoolText(showCurrentOnly')>> >>
                /\ marketSource = "clob"
                     => r.url = Url("/api/markets", <<>>, MarketsParams(category, sortBy, sortDirection)) ]_vars

\* C12 witness: the active-only filter was switched off over a displayed
\* list and the request it caused is in flight.
C12_Witness ==
  /\ snap = "GammaClob"
  /\ ~showCurrentOnly
  /\ IsArray(markets) /\ Len(markets.items) > 0
  /\ \E r \in inflight : r.url.query = << <<"current_only", "false">> >>

\* the paths of the sports and of the all-markets bulk endpoint
SportsPaths == {"/markets/gamma/sports", "/gamma/markets/sports"}
AllMarketsPaths == {"/markets/gamma", "/gamma/markets"}

\* C13: toggleMarketView re-fetches: with showSportsOnly false it flips the
\* flag to true and requests the sports endpoint, with showSportsOnly true
\* it flips it to false and requests the all-markets endpoint; the list in
\* memory is not filtered in place.
C13_ToggleViewRefetches ==
  [][ (HandlerRan /\ pending.ev = "toggleView")
        => /\ showSportsOnly' = ~showSportsOnly
           /\ loading'
           /\ markets' = markets
           /\ \E r \in inflight' \ inflight :
                /\ r.seq = nextSeq
                /\ r.url.path \in (IF showSportsOnly THEN AllMarketsPaths ELSE SportsPaths)
                /\ r.by = (IF showSportsOnly THEN "fetchMarkets" ELSE "fetchSportsMarkets") ]_vars

\* C13 witness: the view was toggled to sports and back, and the request
\* for all markets of the second toggle is in flight.
C13_Witness ==
  /\ snap \in ToggleSnapshots
  /\ ~showSportsOnly
  /\ loading
  /\ \E r \in inflight :
       r.seq >= 2 /\ r.by = "fetchMarkets" /\ r.url.path \in AllMarketsPaths

\* C14: when the continuation of a successful ID search has run, markets is
\* exactly the single market returned for the trimmed search id, whatever
\* the view toggle, and error and searchError are both empty.
C14_SuccessfulSearchShowsOneMarket ==
  [][ (ContinuationRan /\ settling.req.by = "handleSearch" /\ settling.result.ok)
        => /\ markets' = Arr(<<settling.result.value>>)
           /\ settling.req.url.id = Trim(settling.req.url.id)
           /\ error' = ""
           /\ searchError' = "" ]_vars

\* C15 as stated: whatever volume and open interest a market carries, no
\* card and no aggregate chart renders NaN.
C15_NeverRendersNaN ==
  op \in {"CurrencyCard", "GuardedCard", "NumericCard", "MarketChart"}
    => \A i \in 1..Len(out) :
         /\ out[i].volume \notin {"$NaN", "NaN"}
         /\ out[i].open_interest \notin {"$NaN", "NaN"}

\* C16: the active-only filters are idempotent: filtering the filtered list
\* again, with the same setting, returns it unchanged, for the filter of the
\* gamma/clob snapshot and for the predicate of App.tsx.
C16_ActiveFilterIsIdempotent ==
  /\ op = "filteredMarkets" => filteredMarkets(out, props.showCurrentOnly) = out
  /\ op = "ActiveMarkets" => ActiveMarkets(out) = out

\* C16 witness: the active-only filter of the gamma/clob snapshot has
\* dropped some markets of a list and kept others.
C16_Witness ==
  /\ op = "filteredMarkets"
  /\ props.showCurrentOnly
  /\ 0 < Len(out) /\ Len(out) < Len(props.list)

\* the other sort direction
OtherDirection(d) == IF d = "asc" THEN "desc" ELSE "asc"
\* s is t read backwards
IsReverse(s, t) == Len(s) = Len(t) /\ \A i \in 1..Len(s) : s[i] = t[Len(t) + 1 - i]
\* position of the market with id x in list s
IndexOf(s, x) == CHOOSE i \in 1..Len(s) : s[i].id = x

\* C17 as stated: once a sort key is selected the displayed list is in the
\* order of that key and the selected direction; with distinct volumes the
\* list of the other direction is its reverse; markets of equal volume keep
\* their fetch order.
C17_DisplayedListIsSorted ==
  (op = "Displayed" /\ props.sortBy = "volume")
    => /\ \A i, j \in 1..Len(out) :
            i < j => ~Before(out[j], out[i], props.sortDirection)
       /\ (\A i, j \in 1..Len(out) : i # j => out[i].volume # out[j].volume)
            => IsReverse(out, Displayed([props EXCEPT !.sortDirection = OtherDirection(props.sortDirection)]))
       /\ \A i, j \in 1..Len(out) :
            (i < j /\ out[i].volume = out[j].volume)
              => IndexOf(props.list, out[i].id) < IndexOf(props.list, out[j].id)

\* the label the claim gives an inactive market on a status-aware card
InactiveLabel(status) ==
  IF status = "resolved" THEN "Resolved" ELSE IF status # "" THEN status ELSE "Unknown"

NewRequests == inflight' \ inflight
\* how many API functions the handler of the pending event and the effects
\* it triggers call, read off the handlers
ApiCallsOf(e) ==
  CASE e.ev = "mount" -> 1
    [] e.ev = "change" -> IF e.value = <<>> /\ searchId # <<>> THEN 1 ELSE 0
    [] e.ev = "search" -> IF \A i \in 1..Len(searchId) : searchId[i] = " " THEN 0 ELSE 1
    [] e.ev = "clear" -> 2
    [] e.ev = "toggleView" -> IF snap = "SportsSearch" /\ searchId # <<>> THEN 2 ELSE 1
    [] OTHER -> 1

\* C19: every invocation of an API function puts exactly one new GET in
\* flight, also when an identical request is in flight or was answered
\* before; no request is issued when a response settles or its continuation
\* runs (no retry), and a settled result is computed from the outcome of its
\* own request alone (no cache).
C19_OneGetPerInvocation ==
  [][ /\ HandlerRan
        => /\ Cardinality(NewRequests) = ApiCallsOf(pending)
           /\ inflight \subseteq inflight'
           /\ \A r \in NewRequests : r.seq >= nextSeq
      /\ ~HandlerRan => NewRequests = {}
      /\ settling'.active
        => /\ settling'.req \in inflight
           /\ settling'.result = ApiCall(settling'.req.fn, settling'.outcome) ]_vars

\* C19 witness: two invocations with the same arguments have put two
\* requests for the same URL in flight.
C19_Witness ==
  \E r1, r2 \in inflight :
    r1.seq # r2.seq /\ r1.fn = r2.fn /\ r1.url = r2.url

\* what a continuation may store, given the settled call alone
StoredFor(by, res) ==
  IF by = "handleSearch" THEN (IF res.ok THEN Arr(<<res.value>>) ELSE Arr(<<>>))
  ELSE IF snap = "AppTsx" THEN Arr(ActiveMarkets(res.value.items))
  ELSE IF snap \in {"GammaClob", "Basic"} /\ res.value = Null THEN Arr(<<>>)
  ELSE res.value

\* C20: every write to markets replaces it as a whole by a collection derived
\* from the single response just received (the empty list after a failed
\* search): markets changes only when a continuation runs, and its new value
\* is a function of that continuation's settled call, not of the old value.
C20_MarketsReplacedWhole ==
  [][ markets' # markets
        => /\ settling.active
           /\ ~settling'.active
           /\ markets' = StoredFor(settling.req.by, settling.result)
           /\ shown' = settling.req.seq ]_vars

\* C20 witness: a later response has replaced a displayed list by another
\* non-empty list.
C20_Witness ==
  /\ shown >= 1
  /\ IsArray(markets)
  /\ Len(markets.items) > 0
  /\ nextSeq >= 2

\* C21: in the sports+search snapshot, once toggleMarketView and its effects
\* have run, searchId and searchError are both empty, whatever they were.
C21_ToggleResetsSearch ==
  [][ (HandlerRan /\ pending.ev = "toggleView" /\ snap = "SportsSearch")
        => (searchId' = <<>> /\ searchError' = "") ]_vars

\* C22: in the sports+search snapshot, when a continuation has written a
\* non-empty markets and leaves showSportsOnly true, searchId empty and no
\* request in flight, what it wrote is the response of the sports endpoint.
C22_SportsViewShowsSportsResponse ==
  [][ ( /\ ContinuationRan
        /\ snap = "SportsSearch"
        /\ shown' = settling.req.seq
        /\ markets' # Arr(<<>>)
        /\ showSportsOnly'
        /\ searchId' = <<>>
        /\ inflight' = {} )
        => settling.req.by = "fetchSportsMarkets" ]_vars

\* C23: in App.tsx, whenever searchId is empty and no request is in flight,
\* every displayed market satisfies the active predicate of fetchMarkets.
C23_ListingShowsActiveMarketsOnly ==
  ( /\ snap = "AppTsx"
    /\ mounted
    /\ Idle
    /\ ~loading
    /\ searchId = <<>>
    /\ inflight = {} )
    => \A i \in 1..Len(markets.items) : IsActiveMarket(markets.items[i])

\* C24: in App.tsx and the sports+search snapshot, when every request in
\* flight is eventually answered, loading does not stay true: whenever it is
\* true it eventually becomes false.
C24_LoadingEventuallyEnds == loading ~> ~loading

\* C24 witness: a search and a bulk listing have both failed and left
\* their messages, and the spinner is gone with nothing in flight.
C24_Witness ==
  /\ snap \in SearchSnapshots
  /\ ~loading
  /\ Idle
  /\ inflight = {}
  /\ searchError # ""
  /\ error # ""

\* C25: the two error channels are independent: the continuation of a failed
\* handleSearch leaves error unchanged and sets searchError to the failure
\* message; the continuation of a bulk fetch (fetchMarkets,
\* fetchSportsMarkets) never changes searchError, whatever the outcome.
C25_ErrorChannelsIndependent ==
  [][ ContinuationRan
        => /\ (settling.req.by = "handleSearch" /\ ~settling.result.ok)
                => (error' = error /\ searchError' = settling.result.message)
           /\ settling.req.by \in {"fetchMarkets", "fetchSportsMarkets"}
                => searchError' = searchError ]_vars

\* C25 witness: a search has failed with a status error while the banner of
\* an earlier empty listing is shown, and the banner is still there.
C25_Witness ==
  /\ searchError = "Failed to fetch market: 500"
  /\ error \in NoActiveMarketsMessages
  /\ markets = Arr(<<>>)
  /\ ~loading

\* C26: in App.tsx a bulk listing that fails (non-2xx status or transport
\* failure) and one that succeeds with the empty array end in the same view
\* state: error is 'No active markets found at this time.', markets keeps
\* its previous contents, loading is false; neither produces the 'Failed to
\* fetch markets' message.
C26_FailedListingLooksEmpty ==
  [][ ( /\ ContinuationRan
        /\ snap = "AppTsx"
        /\ settling.req.by = "fetchMarkets"
        /\ \/ TransportFailed(settling.outcome)
           \/ StatusFailed(settling.outcome)
           \/ settling.outcome = HttpResponse(200, Arr(<<>>)) )
        => /\ error' = "No active markets found at this time."
           /\ markets' = markets
           /\ ~loading'
           /\ settling.result = Fulfilled(Arr(<<>>)) ]_vars

\* C26 witness: a listing of App.tsx has failed while a list was displayed,
\* and the list is still there under the 'no active markets' banner.
C26_Witness ==
  /\ snap = "AppTsx"
  /\ error = "No active markets found at this time."
  /\ markets # Arr(<<>>)
  /\ ~loading
  /\ mounted

\* the parameter k is in the query q
HasParam(q, k) == \E i \in 1..Len(q) : q[i][1] = k

\* C27: the request of the parameterised getMarkets carries category exactly
\* when a category is given, sort_by and sort_direction both exactly when a
\* sort key is given, sort_direction being the given direction or 'desc'
\* when none is given, and its URL has no query string when neither a
\* category nor a sort key is given.
C27_QueryFollowsArguments ==
  op = "getMarkets"
    => LET q == out[1].query
       IN /\ HasParam(q, "category") <=> props.category # Undefined
          /\ HasParam(q, "category") => QueryValue(q, "category", Undefined) = props.category
          /\ HasParam(q, "sort_by") <=> props.sortBy # Undefined
          /\ HasParam(q, "sort_by") => QueryValue(q, "sort_by", Undefined) = props.sortBy
          /\ HasParam(q, "sort_direction") <=> HasParam(q, "sort_by")
          /\ HasParam(q, "sort_direction")
               => QueryValue(q, "sort_direction", Undefined)
                    = (IF props.sortDirection = Undefined THEN "desc" ELSE props.sortDirection)
          /\ (props.category = Undefined /\ props.sortBy = Undefined)
               <=> out[1].url = "/api/markets"
          /\ \A i, j \in 1..Len(q) : q[i][1] = q[j][1] => i = j

\* C27 witness: getMarkets was called with a category and a sort key and
\* without a direction, and the request asks for descending order.
C27_Witness ==
  /\ op = "getMarkets"
  /\ props.sortDirection = Undefined
  /\ out[1].url = "/api/markets?category=crypto&sort_by=volume&sort_direction=desc"

====
